---- MODULE Spec2Model ----
(***************************************************************************)
(* pandabuffers/proto_to_pandas.py: proto_to_dict, proto_normalize and     *)
(* proto_explode, run on bounded sequences of protobuf messages.           *)
(*                                                                         *)
(* A Python str that is a dotted path ("index.c.q", "c.d") is the sequence *)
(* of its "."-separated segments (<<"index","c","q">>); "" is <<"">> and   *)
(* "index." is <<"index","">>.  Field names hold no ".", so two such       *)
(* strings are equal exactly when their segment sequences are.             *)
(***************************************************************************)
EXTENDS Integers, Sequences, FiniteSets, TLC

VARIABLES
    indexed,          \* whether the element types declare a message field "index"
    list_of_protos,   \* the caller's messages
    path_arg,         \* proto_explode's path_to_repeated_field argument
    pc,               \* "start", "to_dict", "explode", "done"
    protos_as_json,   \* proto_normalize: line 39
    i,                \* proto_explode: loop variable of line 117
    proto_list,       \* proto_explode: line 116
    stack,            \* frames of explode_field / explode_repeated, top last
    ret,              \* <<>>, or <<v>>: v was just returned to the top frame
    result            \* what the call gave its caller

vars == <<indexed, list_of_protos, path_arg, pc, protos_as_json, i, proto_list,
          stack, ret, result>>

(* ------------------------------ bounds -------------------------------- *)

\* at most this many messages in list_of_protos
MaxRecords == 2
\* at most this many elements of repeated fields in all of list_of_protos
MaxElems == 4

(* --------------------- the messages' descriptors ---------------------- *)

\* FieldDescriptor: name, label == LABEL_REPEATED, message_type ("" is None)
Field(name, repeated, message_type) ==
    [name |-> name, repeated |-> repeated, message_type |-> message_type]

IndexField(ix) ==
    IF ix THEN <<Field("index", FALSE, "Idx")>> ELSE <<>>

\* DESCRIPTOR.fields of each message type, in declaration order
DescriptorFields(T, ix) ==
    CASE T = "Rec"   -> <<Field("a", FALSE, ""), Field("b", TRUE, ""),
                          Field("c", FALSE, "Sub"), Field("r", TRUE, "Elem")>>
      [] T = "Sub"   -> <<Field("d", FALSE, ""), Field("q", TRUE, "")>>
      [] T = "Elem"  -> <<Field("s", FALSE, ""), Field("n", FALSE, "Inner"),
                          Field("q", TRUE, "QItem")>> \o IndexField(ix)
      [] T = "Inner" -> <<Field("y", FALSE, "")>>
      [] T = "QItem" -> <<Field("v", FALSE, "")>> \o IndexField(ix)
      [] T = "Idx"   -> <<Field("r", FALSE, ""), Field("x", FALSE, "")>>
      [] OTHER       -> <<>>

FieldNames(T, ix) ==
    {DescriptorFields(T, ix)[n].name : n \in 1..Len(DescriptorFields(T, ix))}

\* DESCRIPTOR.fields_by_name[name]
FieldByName(T, ix, name) ==
    LET fs == DescriptorFields(T, ix)
    IN  fs[CHOOSE n \in 1..Len(fs) : fs[n].name = name]

\* attributes every Message has that are no field of it
MessageAttrs == {"DESCRIPTOR"}

(* ------------------------- the input messages ------------------------- *)

Idx(v) == [r |-> v + 5, x |-> v + 6]

QItem(v, ix) ==
    IF ix THEN [v |-> v, index |-> Idx(v)] ELSE [v |-> v]

Elem(v, nq, ix) ==
    LET qs == [k \in 1..nq |-> QItem(v + 10 * k, ix)]
    IN  IF ix THEN [s |-> v, n |-> [y |-> v + 1], q |-> qs, index |-> Idx(v)]
              ELSE [s |-> v, n |-> [y |-> v + 1], q |-> qs]

\* a Rec with nb elements in b, ncq in c.q, and Len(rq) in r, of which
\* element j holds rq[j] elements in its q; scalar values tell the places apart
Rec(base, shape, ix) ==
    [a |-> base + 1,
     b |-> [k \in 1..shape.nb |-> base + 10 + k],
     c |-> [d |-> base + 2, q |-> [k \in 1..shape.ncq |-> base + 20 + k]],
     r |-> [j \in 1..Len(shape.rq) |-> Elem(base + 100 * j, shape.rq[j], ix)]]

RECURSIVE SumSeq(_)
SumSeq(s) == IF s = <<>> THEN 0 ELSE Head(s) + SumSeq(Tail(s))

\* the number of repeated-field elements of a Rec of this shape
Cost(shape) == shape.nb + shape.ncq + Len(shape.rq) + SumSeq(shape.rq)

RECURSIVE QLens(_)
QLens(n) ==
    {<<>>} \cup
    UNION {{<<k>> \o rest : rest \in QLens(n - 1 - k)} : k \in 0..(n - 1)}

RecShapes(n) ==
    UNION {UNION {{[nb |-> x, ncq |-> y, rq |-> z] : z \in QLens(n - x - y)}
                  : y \in 0..(n - x)} : x \in 0..n}

RECURSIVE ShapeSeqs(_, _)
ShapeSeqs(m, n) ==
    {<<>>} \cup
    (IF m = 0 THEN {}
     ELSE UNION {{<<s>> \o rest : rest \in ShapeSeqs(m - 1, n - Cost(s))}
                 : s \in RecShapes(n)})

Inputs(ix) ==
    {[k \in 1..Len(ss) |-> Rec(1000 * k, ss[k], ix)]
        : ss \in ShapeSeqs(MaxRecords, MaxElems)}

\* the values of path_to_repeated_field the caller passes
Paths ==
    {<<"b">>, <<"c", "q">>, <<"r">>, <<"r", "q">>,
     <<"a">>, <<"c">>, <<"c", "d">>, <<"r", "s">>, <<"r", "n">>,
     <<"zzz">>, <<"r", "zzz">>, <<"b", "x">>, <<"DESCRIPTOR">>, <<"">>}

(* ------------------------------ dicts --------------------------------- *)

\* a dict is a function from keys to values; a value is a scalar or a dict
Scalar(v) == [kind |-> "scalar", val |-> v]
Dict(d) == [kind |-> "dict", val |-> d]

\* d[k] = v
SetItem(d, k, v) ==
    [x \in (DOMAIN d) \cup {k} |-> IF x = k THEN v ELSE d[x]]

\* a set of <<key, value>> pairs with distinct keys, as a function
FromPairs(S) ==
    [k \in {p[1] : p \in S} |-> (CHOOSE p \in S : p[1] = k)[2]]

(* --------------------------- proto_to_dict ---------------------------- *)

\* lines 19 and 21 taken together: message fields are stepped over too
IsSkippedOrMessage(field) == field.repeated \/ field.message_type # ""

\* line 19: the fields the loop steps over
IsSkipped(field) == field.repeated

RECURSIVE proto_to_dict(_, _, _)
proto_to_dict(proto_message, T, ix) ==
    LET fs == DescriptorFields(T, ix)
        kept == {n \in 1..Len(fs) : ~IsSkipped(fs[n])}
        entry(field) ==
            IF field.message_type # ""
            THEN Dict(proto_to_dict(proto_message[field.name],
                                    field.message_type, ix))
            ELSE Scalar(proto_message[field.name])
    IN  FromPairs({<<<<fs[n].name>>, entry(fs[n])>> : n \in kept})

(* --------------------- pandas: what the calls do ---------------------- *)

\* a column or index name that is None
None == <<>>
\* NaN, the fill of a row that lacks a column
NaN == -1

RECURSIVE normalise_json(_, _)
\* pandas _normalise_json: the <<dotted key, value>> pairs of the leaves of d
normalise_json(d, key_string) ==
    UNION {IF d[k].kind = "dict"
           THEN normalise_json(d[k].val, key_string \o k)
           ELSE {<<key_string \o k, d[k].val>>} : k \in DOMAIN d}

\* pandas _normalise_json_ordered: {**top_dict_, **nested_dict_}
normalise_json_ordered(d) ==
    LET top_keys == {k \in DOMAIN d : d[k].kind # "dict"}
        nested_dict == FromPairs(normalise_json(
                           [k \in (DOMAIN d) \ top_keys |-> d[k]], <<>>))
    IN  [k \in top_keys \cup DOMAIN nested_dict |->
            IF k \in DOMAIN nested_dict THEN nested_dict[k] ELSE d[k].val]

\* RangeIndex(n): the labels of a new DataFrame's rows
RangeIndex(n) == [k \in 1..n |-> <<k - 1>>]

\* pd.json_normalize(data) of a list of dicts
json_normalize(data) ==
    LET flat == [n \in 1..Len(data) |-> normalise_json_ordered(data[n])]
        columns == UNION {DOMAIN flat[n] : n \in 1..Len(data)}
    IN  [index_names |-> <<None>>,
         index |-> RangeIndex(Len(data)),
         columns |-> columns,
         rows |-> [n \in 1..Len(data) |->
                     [c \in columns |->
                         IF c \in DOMAIN flat[n] THEN flat[n][c] ELSE NaN]]]

\* df.set_index(keys) of a list of column names: MultiIndex.from_arrays([])
\* raises ValueError("Must pass non-zero number of levels/codes")
set_index_raises(keys) == keys = <<>>

set_index(df, keys) ==
    LET gone == {keys[m] : m \in 1..Len(keys)}
    IN  [index_names |-> keys,
         index |-> [n \in 1..Len(df.rows) |->
                      [m \in 1..Len(keys) |-> df.rows[n][keys[m]]]],
         columns |-> df.columns \ gone,
         rows |-> [n \in 1..Len(df.rows) |->
                     [c \in df.columns \ gone |-> df.rows[n][c]]]]

\* the rename of line 41 left out
rename_index_dropped(df, name) == df

\* df.set_index(df.index.rename(name)) of a single-level index
rename_index(df, name) == [df EXCEPT !.index_names = <<name>>]

\* df.set_index(df.index.rename(mapping)), mapping == {old: new}
rename_levels(df, old, new) ==
    [df EXCEPT !.index_names =
        [m \in 1..Len(df.index_names) |->
            IF df.index_names[m] = old THEN new ELSE df.index_names[m]]]

(* ------------------- str: startswith and comparison ------------------- *)

\* the names of the model in str order ("" first, upper case before lower)
NameOrder ==
    <<"", "DESCRIPTOR", "a", "b", "c", "d", "index", "n", "q", "r", "s", "v",
      "x", "y", "zzz">>

NameRank(name) == CHOOSE n \in 1..Len(NameOrder) : NameOrder[n] = name

RECURSIVE StrLess(_, _)
\* s < t of two dotted strings: "." sorts before every character of a name
StrLess(s, t) ==
    IF t = <<>> THEN FALSE
    ELSE IF s = <<>> THEN TRUE
    ELSE IF Head(s) # Head(t) THEN NameRank(Head(s)) < NameRank(Head(t))
    ELSE StrLess(Tail(s), Tail(t))

\* column.startswith("index.")
StartsWithIndexDot(column) == Len(column) >= 2 /\ column[1] = "index"

RECURSIVE sorted(_)
sorted(S) ==
    IF S = {} THEN <<>>
    ELSE LET m == CHOOSE x \in S : \A y \in S : x = y \/ StrLess(x, y)
         IN  <<m>> \o sorted(S \ {m})

(* ----------------------------- results -------------------------------- *)

NoTable == [index_names |-> <<>>, index |-> <<>>, columns |-> {}, rows |-> <<>>]
NoError == [type |-> "", message |-> "", segment |-> "", fragment |-> <<>>,
            record |-> -1]

Returned(df) == [kind |-> "table", table |-> df, error |-> NoError]
Raised(type, message, segment, fragment, record) ==
    [kind |-> "error", table |-> NoTable,
     error |-> [type |-> type, message |-> message, segment |-> segment,
                fragment |-> fragment, record |-> record]]

(* -------------------------- proto_normalize --------------------------- *)

\* line 39
proto_normalize_to_dicts ==
    /\ pc = "start"
    /\ protos_as_json' = [n \in 1..Len(list_of_protos) |->
                             proto_to_dict(list_of_protos[n], "Rec", indexed)]
    /\ pc' = "to_dict"
    /\ UNCHANGED <<indexed, list_of_protos, path_arg, i, proto_list, stack,
                   ret, result>>

\* lines 40-41
proto_normalize_return ==
    /\ pc = "to_dict"
    /\ result' = Returned(rename_index(json_normalize(protos_as_json),
                                       <<"index">>))
    /\ pc' = "done"
    /\ UNCHANGED <<indexed, list_of_protos, path_arg, protos_as_json, i,
                   proto_list, stack, ret>>

(* ------------------------ the explode helpers ------------------------- *)

\* a str path of no segment
EmptyPath == <<"">>

\* line 85: s.partition("."), as <<head, tail>>
Partition(s) == <<Head(s), IF Len(s) > 1 THEN Tail(s) ELSE EmptyPath>>

\* line 86 as "index." + current_path: the level's own name only
ExtendIndexPathLevelOnly(index_path, current_path) == <<"index", current_path>>

\* line 86 left out
ExtendIndexPathUnchanged(index_path, current_path) == index_path

\* line 86: index_path += "." + current_path
ExtendIndexPath(index_path, current_path) == Append(index_path, current_path)

\* line 120: the key of the top-level position
TopIndexKey == <<"index", "">>

\* lines 61-62 and 119-120: d[key] = position, for every d of m
Stamp(m, key, position) ==
    [n \in 1..Len(m) |-> SetItem(m[n], key, Scalar(position))]

\* lines 44-54
dicts_from_repeated_field(repeated_message, field, current_path, index_path, ix) ==
    [n \in 1..Len(repeated_message) |->
        IF field.message_type # ""
        THEN SetItem(proto_to_dict(repeated_message[n], field.message_type, ix),
                     index_path, Scalar(n - 1))
        ELSE SetItem(SetItem(<<>>, index_path, Scalar(n - 1)),
                     <<current_path>>, Scalar(repeated_message[n]))]

\* getattr(message, name) finds an attribute
HasAttr(T, ix, name) == T # "" /\ name \in FieldNames(T, ix) \cup MessageAttrs

\* a frame of explode_field or explode_repeated: its arguments and locals
Frame(fn, at, message, T, path, index_path, current_path) ==
    [fn |-> fn, at |-> at, message |-> message, T |-> T,
     path_to_repeated_field |-> path, index_path |-> index_path,
     current_path |-> current_path, i |-> 0, proto_list |-> <<>>]

Top == stack[Len(stack)]
Pop == SubSeq(stack, 1, Len(stack) - 1)
ReplaceTop(frame) == Append(Pop, frame)

\* the top frame is an explode_field about to run its body
AtEntry ==
    /\ pc = "explode" /\ stack # <<>> /\ ret = <<>>
    /\ Top.fn = "explode_field" /\ Top.at = "entry"

\* lines 85-86 of the top frame
CurrentPath == Partition(Top.path_to_repeated_field)[1]
RestPath == Partition(Top.path_to_repeated_field)[2]
NewIndexPath == ExtendIndexPath(Top.index_path, CurrentPath)
\* the top frame after lines 85-86, waiting for the call it returns
Waiting == [Top EXCEPT !.at = "wait", !.path_to_repeated_field = RestPath,
                       !.index_path = NewIndexPath, !.current_path = CurrentPath]

\* an exception leaves every frame and proto_explode
Raise(type, message, segment, fragment) ==
    /\ result' = Raised(type, message, segment, fragment, i)
    /\ stack' = <<>>
    /\ pc' = "done"
    /\ UNCHANGED <<indexed, list_of_protos, path_arg, protos_as_json, i,
                   proto_list, ret>>

(* --------------------------- explode_field ---------------------------- *)

\* line 87: getattr raises AttributeError
explode_field_no_attribute ==
    /\ AtEntry
    /\ ~HasAttr(Top.T, indexed, CurrentPath)
    /\ Raise("AttributeError", "no attribute", CurrentPath, RestPath)

\* line 88: fields_by_name raises KeyError
explode_field_no_field ==
    /\ AtEntry
    /\ HasAttr(Top.T, indexed, CurrentPath)
    /\ CurrentPath \notin FieldNames(Top.T, indexed)
    /\ Raise("KeyError", "key", CurrentPath, RestPath)

\* lines 89-93
explode_field_terminal ==
    /\ AtEntry
    /\ CurrentPath \in FieldNames(Top.T, indexed)
    /\ LET field == FieldByName(Top.T, indexed, CurrentPath)
       IN  /\ field.repeated
           /\ RestPath = EmptyPath
           /\ ret' = <<dicts_from_repeated_field(Top.message[CurrentPath], field,
                           CurrentPath, NewIndexPath, indexed)>>
    /\ stack' = Pop
    /\ UNCHANGED <<indexed, list_of_protos, path_arg, pc, protos_as_json, i,
                   proto_list, result>>

\* lines 89 and 95: the call of explode_repeated
explode_field_repeated ==
    /\ AtEntry
    /\ CurrentPath \in FieldNames(Top.T, indexed)
    /\ LET field == FieldByName(Top.T, indexed, CurrentPath)
       IN  /\ field.repeated
           /\ RestPath # EmptyPath
           /\ stack' = Append(ReplaceTop(Waiting),
                          Frame("explode_repeated", "loop", Top.message[CurrentPath],
                                field.message_type, RestPath, NewIndexPath, ""))
    /\ UNCHANGED <<indexed, list_of_protos, path_arg, pc, protos_as_json, i,
                   proto_list, ret, result>>

\* lines 96-97: the recursive call
explode_field_message ==
    /\ AtEntry
    /\ CurrentPath \in FieldNames(Top.T, indexed)
    /\ LET field == FieldByName(Top.T, indexed, CurrentPath)
       IN  /\ ~field.repeated
           /\ field.message_type # ""
           /\ stack' = Append(ReplaceTop(Waiting),
                          Frame("explode_field", "entry", Top.message[CurrentPath],
                                field.message_type, RestPath, NewIndexPath, ""))
    /\ UNCHANGED <<indexed, list_of_protos, path_arg, pc, protos_as_json, i,
                   proto_list, ret, result>>

\* lines 98-100
explode_field_invalid_path ==
    /\ AtEntry
    /\ CurrentPath \in FieldNames(Top.T, indexed)
    /\ LET field == FieldByName(Top.T, indexed, CurrentPath)
       IN  ~field.repeated /\ field.message_type = ""
    /\ Raise("ValueError", "Invalid path", CurrentPath, RestPath)

\* lines 95 and 97: return what the call returned
explode_field_return ==
    /\ pc = "explode" /\ stack # <<>> /\ ret # <<>>
    /\ Top.fn = "explode_field"
    /\ stack' = Pop
    /\ UNCHANGED <<indexed, list_of_protos, path_arg, pc, protos_as_json, i,
                   proto_list, ret, result>>

(* -------------------------- explode_repeated -------------------------- *)

\* lines 59-60: the next element, and the call of explode_field on it
explode_repeated_loop ==
    /\ pc = "explode" /\ stack # <<>> /\ ret = <<>>
    /\ Top.fn = "explode_repeated" /\ Top.at = "loop"
    /\ Top.i < Len(Top.message)
    /\ stack' = Append(ReplaceTop([Top EXCEPT !.at = "wait"]),
                   Frame("explode_field", "entry", Top.message[Top.i + 1], Top.T,
                         Top.path_to_repeated_field, Top.index_path, ""))
    /\ UNCHANGED <<indexed, list_of_protos, path_arg, pc, protos_as_json, i,
                   proto_list, ret, result>>

\* lines 61-63
explode_repeated_extend ==
    /\ pc = "explode" /\ stack # <<>> /\ ret # <<>>
    /\ Top.fn = "explode_repeated"
    /\ stack' = ReplaceTop([Top EXCEPT
                   !.at = "loop",
                   !.proto_list = @ \o Stamp(ret[1], Top.index_path, Top.i),
                   !.i = @ + 1])
    /\ ret' = <<>>
    /\ UNCHANGED <<indexed, list_of_protos, path_arg, pc, protos_as_json, i,
                   proto_list, result>>

\* line 64
explode_repeated_return ==
    /\ pc = "explode" /\ stack # <<>> /\ ret = <<>>
    /\ Top.fn = "explode_repeated" /\ Top.at = "loop"
    /\ Top.i = Len(Top.message)
    /\ ret' = <<Top.proto_list>>
    /\ stack' = Pop
    /\ UNCHANGED <<indexed, list_of_protos, path_arg, pc, protos_as_json, i,
                   proto_list, result>>

(* --------------------------- proto_explode ---------------------------- *)

\* the call, and line 116
proto_explode_call ==
    /\ pc = "start"
    /\ \E p \in Paths : path_arg' = p
    /\ pc' = "explode"
    /\ UNCHANGED <<indexed, list_of_protos, protos_as_json, i, proto_list,
                   stack, ret, result>>

\* lines 117-118: the next message, and the call of explode_field on it
proto_explode_loop ==
    /\ pc = "explode" /\ stack = <<>> /\ ret = <<>>
    /\ i < Len(list_of_protos)
    /\ stack' = <<Frame("explode_field", "entry", list_of_protos[i + 1], "Rec",
                        path_arg, <<"index">>, "")>>
    /\ UNCHANGED <<indexed, list_of_protos, path_arg, pc, protos_as_json, i,
                   proto_list, ret, result>>

\* lines 119-121
proto_explode_extend ==
    /\ pc = "explode" /\ stack = <<>> /\ ret # <<>>
    /\ proto_list' = proto_list \o Stamp(ret[1], TopIndexKey, i)
    /\ i' = i + 1
    /\ ret' = <<>>
    /\ UNCHANGED <<indexed, list_of_protos, path_arg, pc, protos_as_json,
                   stack, result>>

\* line 123
IndexColumns(df) == sorted({c \in df.columns : StartsWithIndexDot(c)})

\* lines 122-125
proto_explode_return ==
    /\ pc = "explode" /\ stack = <<>> /\ ret = <<>>
    /\ i = Len(list_of_protos)
    /\ LET df == json_normalize(proto_list)
           index_columns == IndexColumns(df)
       IN  result' =
              IF set_index_raises(index_columns)
              THEN Raised("ValueError",
                          "Must pass non-zero number of levels/codes", "",
                          <<>>, i)
              ELSE Returned(rename_levels(set_index(df, index_columns),
                                          TopIndexKey, <<"index">>))
    /\ pc' = "done"
    /\ UNCHANGED <<indexed, list_of_protos, path_arg, protos_as_json, i,
                   proto_list, stack, ret>>

(* --------------------------- specification ---------------------------- *)

NoPath == <<>>

Init ==
    /\ indexed \in BOOLEAN
    /\ list_of_protos \in Inputs(indexed)
    /\ path_arg = NoPath
    /\ pc = "start"
    /\ protos_as_json = <<>>
    /\ i = 0
    /\ proto_list = <<>>
    /\ stack = <<>>
    /\ ret = <<>>
    /\ result = [kind |-> "none", table |-> NoTable, error |-> NoError]

Next ==
    \/ proto_normalize_to_dicts
    \/ proto_normalize_return
    \/ proto_explode_call
    \/ proto_explode_loop
    \/ proto_explode_extend
    \/ proto_explode_return
    \/ explode_field_no_attribute
    \/ explode_field_no_field
    \/ explode_field_terminal
    \/ explode_field_repeated
    \/ explode_field_message
    \/ explode_field_invalid_path
    \/ explode_field_return
    \/ explode_repeated_loop
    \/ explode_repeated_extend
    \/ explode_repeated_return

Spec == Init /\ [][Next]_vars

(* ------------------ what the schema says of a path -------------------- *)

RECURSIVE WalkType(_, _)
\* the message type reached from T over the fields named by p ("" if none)
WalkType(T, p) ==
    IF p = <<>> THEN T
    ELSE IF Head(p) \notin FieldNames(T, indexed) THEN ""
    ELSE WalkType(FieldByName(T, indexed, Head(p)).message_type, Tail(p))

\* segment m of p names a field declared where the walk from Rec stands
Declared(p, m) == p[m] \in FieldNames(WalkType("Rec", SubSeq(p, 1, m - 1)), indexed)
SegField(p, m) == FieldByName(WalkType("Rec", SubSeq(p, 1, m - 1)), indexed, p[m])

\* the segments of p that name repeated fields
RepeatedLevels(p) == {m \in 1..Len(p) : Declared(p, m) /\ SegField(p, m).repeated}

\* p can be walked: every segment is declared, every segment but the last
\* is message-typed, and the last one is repeated
Traversable(p) ==
    /\ \A m \in 1..Len(p) : Declared(p, m)
    /\ \A m \in 1..(Len(p) - 1) : SegField(p, m).message_type # ""
    /\ SegField(p, Len(p)).repeated

\* every segment of p is a declared singular field
AllSingular(p) ==
    /\ \A m \in 1..Len(p) : Declared(p, m) /\ ~SegField(p, m).repeated
    /\ \A m \in 1..(Len(p) - 1) : SegField(p, m).message_type # ""

RECURSIVE Resolve(_, _)
\* the value under the singular fields named by p
Resolve(message, p) ==
    IF p = <<>> THEN message ELSE Resolve(message[Head(p)], Tail(p))

RECURSIVE LeafNames(_)
\* the dotted names of the scalars of T under singular fields only
LeafNames(T) ==
    LET fs == DescriptorFields(T, indexed)
    IN  UNION {IF fs[n].repeated THEN {}
               ELSE IF fs[n].message_type = "" THEN {<<fs[n].name>>}
               ELSE {<<fs[n].name>> \o l : l \in LeafNames(fs[n].message_type)}
               : n \in 1..Len(fs)}

\* the flat row of one message: its leaves under their dotted names
FlatRow(message, T) == [l \in LeafNames(T) |-> Resolve(message, l)]

\* the declared names of T that are repeated, and that are not
RepeatedNames(T) ==
    LET fs == DescriptorFields(T, indexed)
    IN  {fs[n].name : n \in {m \in 1..Len(fs) : fs[m].repeated}}
SingularNames(T) == FieldNames(T, indexed) \ RepeatedNames(T)

Explode == path_arg # NoPath
ExplodeDone == pc = "done" /\ Explode
NormalizeDone == pc = "done" /\ ~Explode
IsInvalidPathError(e) == e.type = "ValueError" /\ e.message = "Invalid path"
SetOf(s) == {s[n] : n \in 1..Len(s)}

(* ------------------------------ C7, C8 -------------------------------- *)

RECURSIVE KeysExact(_, _)
\* the keys of d are the singular names of T, and so on under each message
KeysExact(d, T) ==
    /\ DOMAIN d = {<<name>> : name \in SingularNames(T)}
    /\ \A name \in RepeatedNames(T) : <<name>> \notin DOMAIN d
    /\ \A name \in SingularNames(T) :
          LET mt == FieldByName(T, indexed, name).message_type
          IN  IF mt = "" THEN d[<<name>>].kind = "scalar"
              ELSE d[<<name>>].kind = "dict" /\ KeysExact(d[<<name>>].val, mt)

\* d without the index keys lines 49, 62 and 120 add to it
WithoutIndexKeys(d) == [k \in {x \in DOMAIN d : Len(x) = 1} |-> d[k]]

\* C7: the keys of proto_to_dict(record) are exactly the names of the
\* record's non-repeated fields, at every depth of singular message fields,
\* and none is the name of a repeated field: of the dicts line 39 keeps, and
\* of the dicts line 48 makes of the elements of a repeated message field
C7_KeysAreSingularFields ==
    /\ \A n \in 1..Len(protos_as_json) : KeysExact(protos_as_json[n], "Rec")
    /\ (/\ ret # <<>>
        /\ Traversable(path_arg)
        /\ SegField(path_arg, Len(path_arg)).message_type # "")
          => \A n \in 1..Len(ret[1]) :
                KeysExact(WithoutIndexKeys(ret[1][n]),
                          SegField(path_arg, Len(path_arg)).message_type)

C7_Witness ==
    /\ pc = "to_dict"
    /\ indexed
    /\ Len(protos_as_json) = 2
    /\ Len(list_of_protos[1].b) = 1
    /\ Len(list_of_protos[2].r) = 1
    /\ Len(list_of_protos[2].r[1].q) = 1

\* C8: proto_normalize returns one row per message, in the order of the
\* messages, labelled 0, 1, ... under the name "index", row n the flat row of
\* message n; no message, no row
C8_NormalizeRowPerRecord ==
    NormalizeDone =>
       /\ result.kind = "table"
       /\ Len(result.table.rows) = Len(list_of_protos)
       /\ result.table.index_names = <<<<"index">>>>
       /\ \A n \in 1..Len(list_of_protos) :
             /\ result.table.index[n] = <<n - 1>>
             /\ result.table.rows[n] = FlatRow(list_of_protos[n], "Rec")

C8_Witness ==
    /\ NormalizeDone
    /\ Len(list_of_protos) = 2
    /\ Len(result.table.rows) = 2
    /\ result.table.rows[1] # result.table.rows[2]

(* ------------------------------ C1, C2 -------------------------------- *)

RECURSIVE Concat(_)
Concat(ss) == IF ss = <<>> THEN <<>> ELSE Head(ss) \o Concat(Tail(ss))

\* p reaches its only repeated field, the last segment, over singular fields
OneLevel(p) == Traversable(p) /\ RepeatedLevels(p) = {Len(p)}

\* p crosses one repeated message field and ends on a second repeated field
TwoLevel(p) == Traversable(p) /\ Cardinality(RepeatedLevels(p)) = 2
OuterLevel(p) == CHOOSE m \in RepeatedLevels(p) : m < Len(p)

\* what a row holds of the terminal element e of p
ElementRow(e, p) ==
    LET field == SegField(p, Len(p))
    IN  IF field.message_type = "" THEN [c \in {<<p[Len(p)]>>} |-> e]
        ELSE FlatRow(e, field.message_type)

\* the rows the claim names, in its order: key, then data
OneLevelRows(p) ==
    Concat([n \in 1..Len(list_of_protos) |->
        LET es == Resolve(list_of_protos[n], p)
        IN  [k \in 1..Len(es) |->
                [key |-> <<n - 1, k - 1>>, data |-> ElementRow(es[k], p)]]])

TwoLevelRows(p) ==
    LET o == OuterLevel(p)
    IN  Concat([n \in 1..Len(list_of_protos) |->
            LET outer == Resolve(list_of_protos[n], SubSeq(p, 1, o))
            IN  Concat([j \in 1..Len(outer) |->
                    LET es == Resolve(outer[j], SubSeq(p, o + 1, Len(p)))
                    IN  [k \in 1..Len(es) |->
                            [key |-> <<n - 1, j - 1, k - 1>>,
                             data |-> ElementRow(es[k], p)]]])])

\* the table holds these rows and no other, in this order: the key's first
\* components are the positions, and every datum is in its column
TableHolds(expected) ==
    /\ result.kind = "table"
    /\ Len(result.table.rows) = Len(expected)
    /\ \A n \in 1..Len(expected) :
          /\ Len(result.table.index[n]) >= Len(expected[n].key)
          /\ SubSeq(result.table.index[n], 1, Len(expected[n].key))
                = expected[n].key
          /\ \A c \in DOMAIN expected[n].data :
                /\ c \in result.table.columns
                /\ result.table.rows[n][c] = expected[n].data[c]

\* C1: over a path of one repetition level, the last one, proto_explode
\* returns for message i with n_i elements exactly n_i rows, the rows of
\* message i before those of message j > i, row k of message i keyed by
\* (i, k) and holding the data of element k
C1_OneLevelRows ==
    (ExplodeDone /\ list_of_protos # <<>> /\ OneLevel(path_arg))
       => TableHolds(OneLevelRows(path_arg))

\* C2: over a path of two repetition levels, proto_explode returns for each
\* message one row per inner element, keyed by (message, outer position,
\* inner position), in outer-major order; an outer element whose inner
\* field is empty gives no row
C2_TwoLevelRows ==
    (ExplodeDone /\ list_of_protos # <<>> /\ TwoLevel(path_arg))
       => TableHolds(TwoLevelRows(path_arg))

(* ---------------------------- C3, C4, C5 ------------------------------ *)

\* the errors explode_field raises while it walks the path
RaisedByWalk(e) == e.message \in {"Invalid path", "no attribute", "key"}

\* C3: proto_explode fails whenever the path cannot be walked, whatever the
\* messages hold (an empty repeated field before the bad segment included),
\* at the first message, and returns no table.  Any error raised on the walk
\* counts here; which kind it is, C4 and C5 say
C3_FailsOnUntraversablePath ==
    (ExplodeDone /\ list_of_protos # <<>> /\ ~Traversable(path_arg))
       => /\ result.kind = "error"
          /\ RaisedByWalk(result.error)
          /\ result.error.record = 0

\* C4: when explode_field pops a segment (a name, not "") that is no field of
\* the message at hand, the call ends in the invalid-path error, which names
\* the segment
C4_MissingFieldIsInvalidPath ==
    [][(AtEntry /\ Top.T # "" /\ CurrentPath # ""
           /\ CurrentPath \notin FieldNames(Top.T, indexed))
          => /\ result'.kind = "error"
             /\ IsInvalidPathError(result'.error)
             /\ result'.error.segment = CurrentPath]_vars

\* C5: a path of singular fields only, ending on a scalar or on a message
\* field, ends in the invalid-path error
C5_AllSingularIsInvalidPath ==
    (ExplodeDone /\ list_of_protos # <<>> /\ AllSingular(path_arg))
       => result.kind = "error" /\ IsInvalidPathError(result.error)

(* ------------------------------ C6, C10 ------------------------------- *)

\* the keys lines 49, 53, 62 and 120 stamp on the rows of path p, the top
\* one as line 125 renames it
StampedKeys(p) ==
    {<<"index">>} \cup {<<"index">> \o SubSeq(p, 1, m) : m \in RepeatedLevels(p)}

\* the data columns of a row of path p
DataColumns(p) ==
    LET field == SegField(p, Len(p))
    IN  IF field.message_type = "" THEN {<<p[Len(p)]>>}
        ELSE LeafNames(field.message_type)

IndexNames == SetOf(result.table.index_names)

NoKeyClash(d) ==
    LET top_keys == {k \in DOMAIN d : d[k].kind # "dict"}
    IN  \A pair \in normalise_json([k \in (DOMAIN d) \ top_keys |-> d[k]], <<>>) :
           pair[1] \notin top_keys

\* C10: the columns taken into the row key are exactly the stamped index
\* keys, and no stamped key is also the flattened name of a datum
C10_KeyIsStampedKeys ==
    (ExplodeDone /\ result.kind = "table")
       => /\ IndexNames = StampedKeys(path_arg)
          /\ \A n \in 1..Len(proto_list) : NoKeyClash(proto_list[n])

(* -------------------------------- C9 ---------------------------------- *)

IsWaitingField(frame) == frame.fn = "explode_field" /\ frame.at = "wait"

\* the segments the frames up to stack[n] have taken off the path
SegmentsConsumed(n) == Cardinality({m \in 1..n : IsWaitingField(stack[m])})

\* those of them that name repeated fields
LevelsTraversed(n) ==
    Cardinality({m \in 1..n :
        /\ IsWaitingField(stack[m])
        /\ FieldByName(stack[m].T, indexed, stack[m].current_path).repeated})

\* C9 as stated: in every frame, index_path holds, after "index", as many
\* segments as repeated fields were traversed
C9_IndexPathCountsLevels ==
    \A n \in 1..Len(stack) :
       Len(stack[n].index_path) - 1 = LevelsTraversed(n)

\* C9 as amended: in every frame, index_path holds, after "index", as many
\* segments as were taken off the path, singular message fields included;
\* and every frame starts from the index_path of the frame that called it,
\* whatever the frames of earlier elements added to theirs
C9_IndexPathCountsSegments ==
    \A n \in 1..Len(stack) :
       /\ stack[n].index_path[1] = "index"
       /\ Len(stack[n].index_path) - 1 = SegmentsConsumed(n)
       /\ n > 1 =>
            stack[n].index_path =
               IF IsWaitingField(stack[n])
               THEN Append(stack[n - 1].index_path, stack[n].current_path)
               ELSE stack[n - 1].index_path

C9_Witness ==
    \E n \in 2..Len(stack) :
       /\ stack[n - 1].fn = "explode_repeated"
       /\ IsWaitingField(stack[n])
       /\ ~FieldByName(stack[n].T, indexed, stack[n].current_path).repeated
       /\ stack[n].index_path = <<"index", "r", "n">>

====
